---------------------------- MODULE Spec2Model ----------------------------
(***************************************************************************)
(* A model of the chat session controller of web/src/app/page.tsx (the     *)
(* Home component): sendMessage, its frame loop over the response stream,  *)
(* stopStreaming, clearChat, loadHistory, deleteConversation,              *)
(* fetchConversations and checkHealth, with the input box (ChatInput).     *)
(*                                                                         *)
(* Spec follows the turns and the frames of their streams, chunk by chunk; *)
(* StreamSpec follows the text of a response body and how it is cut into   *)
(* chunks; StoreSpec follows the operations on the conversation store;     *)
(* HealthSpec follows the health check and the input box it enables;       *)
(* MountSpec follows a page that is opened on a conversation; ToolSpec     *)
(* follows several turns whose bodies carry tool frames; PollSpec follows  *)
(* the health check beside the frames of a turn; CheckSpec follows the     *)
(* health checks one by one, from call to answer.  Spec takes sendMessage  *)
(* as called, whatever connected is: the gate of the input box is followed *)
(* in HealthSpec.                                                          *)
(*                                                                         *)
(* JavaScript runs each callback to completion.  A step of the model is    *)
(* therefore one such run: from a user action or the settling of an        *)
(* awaited promise up to the next await.  The frame loop over one chunk is *)
(* split into one step per line so that the effect of a single event can   *)
(* be stated, and while a chunk is being processed no other action is      *)
(* enabled (the loop is synchronous).                                      *)
(*                                                                         *)
(* Text is modelled as a sequence of atoms; string concatenation is \o.    *)
(***************************************************************************)
EXTENDS Integers, Sequences, FiniteSets, TLC

\* Number of accepted sendMessage calls the model follows.
MaxTurns == 2
\* Number of chunks read from response bodies, over all turns.
MaxReads == 1
\* Number of accepted sendMessage calls when the text of the response body is
\* followed character by character (StreamSpec).
MaxStreamTurns == 1
\* Number of accepted sendMessage calls, and of loadHistory and
\* deleteConversation invocations awaiting at a time, when the conversation
\* store is followed (StoreSpec).
MaxStoreTurns == 1
MaxCalls == 1
\* Number of accepted sendMessage calls when the health check runs beside the
\* frames of a turn (PollSpec).
MaxPollTurns == 1
\* Number of checkHealth invocations followed one by one (CheckSpec).
MaxChecks == 3

VARIABLES
    conversationId,   \* useState conversationId (NoId is null)
    messages,         \* useState messages
    isStreaming,      \* useState isStreaming
    activeToolCalls,  \* useState activeToolCalls
    abortRef,         \* abortRef.current: the turn whose AbortController it holds, or NoTurn
    turns,            \* the running sendMessage invocations (their locals and position)
    nTurns,           \* number of sendMessage invocations that passed the guard
    cur,              \* the chunk the frame loop is working on
    reads,            \* chunks read so far
    seen,             \* per invocation, what its response stream has delivered
    wire,             \* per invocation, its response body: the text and the chunks to come
    conversations,    \* useState conversations (the ids of the entries, in order)
    calls,            \* the loadHistory and deleteConversation invocations that are awaiting
    connected,        \* useState connected
    currentModel,     \* useState currentModel
    location,         \* the chat parameter of window.location (NoId when absent)
    refreshing,       \* whether a fetchConversations invocation is awaiting (calls that
                      \* overlap are not told apart)
    checks            \* the checkHealth invocations in the order they were called, where
                      \* they are followed one by one (CheckSpec)

vars == <<conversationId, messages, isStreaming, activeToolCalls, abortRef,
          turns, nTurns, cur, reads, seen, wire, conversations, calls,
          connected, currentModel, location, refreshing, checks>>

NoId == 0
NoTurn == 0
Turns == 1..MaxTurns

----------------------------------------------------------------------------
(* Text *)

Blank == " "

\* String.prototype.trim on a sequence of characters.
RECURSIVE TrimLeft(_)
TrimLeft(s) == IF s # <<>> /\ Head(s) = Blank THEN TrimLeft(Tail(s)) ELSE s

RECURSIVE TrimRight(_)
TrimRight(s) ==
    IF s # <<>> /\ s[Len(s)] = Blank THEN TrimRight(SubSeq(s, 1, Len(s) - 1)) ELSE s

Trim(s) == TrimRight(TrimLeft(s))

\* The texts a user submits.
Texts == { <<>>, <<Blank>>, <<Blank, "h", "i", Blank>> }

API_BASE == "http://localhost:8001"

\* useState('qwen3:4b'), and the models a health check may report.
DefaultModel == "qwen3:4b"
Models == {DefaultModel, "llama3.2"}

\* `\n\n Error: ${event.content}`
ErrorNote(c) == <<"\n\nError: ">> \o c

\* `Connection error: ${err.message}. Make sure the backend is running on ${API_BASE}`
ConnectionNote(msg) ==
    <<"Connection error: ">> \o msg \o <<". Make sure the backend is running on ", API_BASE>>


----------------------------------------------------------------------------
(* The response stream: chunks, lines, frame payloads, events *)

\* A field that is absent from a parsed record reads as undefined.
Undefined == <<"undefined">>

\* JSON.parse on the text of an argument object: "{" members "}".
JsonParse(text) ==
    IF Len(text) >= 2 /\ Head(text) = "{" /\ text[Len(text)] = "}"
    THEN [ok |-> TRUE, val |-> SubSeq(text, 2, Len(text) - 1)]
    ELSE [ok |-> FALSE, val |-> <<>>]

NoEvent ==
    [event |-> "", content |-> <<>>, tool_name |-> "", done |-> FALSE,
     tool_result |-> Undefined]

TokenEv(c, d) == [NoEvent EXCEPT !.event = "token", !.content = c, !.done = d]
ThinkingEv(c) == [NoEvent EXCEPT !.event = "thinking", !.content = c]
ErrorEv(c) == [NoEvent EXCEPT !.event = "error", !.content = c]
ToolCallEv(n, c) == [NoEvent EXCEPT !.event = "tool_call", !.tool_name = n, !.content = c]
ToolResultEv(n, c, r) ==
    [NoEvent EXCEPT !.event = "tool_result", !.tool_name = n, !.content = c,
                    !.tool_result = r]

\* A line of a chunk: whether it starts with "data: ", and what follows the prefix:
\* the end marker, the text of a JSON record, or text that JSON.parse rejects.
DataLine(ev) == [prefix |-> TRUE, payload |-> [kind |-> "json", ev |-> ev]]
DoneLine == [prefix |-> TRUE, payload |-> [kind |-> "done", ev |-> NoEvent]]
GarbageLine == [prefix |-> TRUE, payload |-> [kind |-> "garbage", ev |-> NoEvent]]
EmptyLine == [prefix |-> FALSE, payload |-> [kind |-> "garbage", ev |-> NoEvent]]
NoLine == [prefix |-> FALSE, payload |-> [kind |-> "none", ev |-> NoEvent]]

TokHel == DataLine(TokenEv(<<"Hel">>, FALSE))
TokLo == DataLine(TokenEv(<<"lo">>, TRUE))
Think == DataLine(ThinkingEv(<<"hmm">>))
Err == DataLine(ErrorEv(<<"boom">>))
CallCalc == DataLine(ToolCallEv("calc", <<"{", "x:1", "}">>))
CallWeb == DataLine(ToolCallEv("web", <<"{", "q">>))
ResCalc == DataLine(ToolResultEv("calc", <<"42">>, Undefined))
ResWeb == DataLine(ToolResultEv("web", <<"page">>, <<"page">>))
ResCalcAgain == DataLine(ToolResultEv("calc", <<"43">>, <<"43">>))

\* The chunks reader.read() returns, each already cut at "\n".
Chunks ==
    { <<TokHel, GarbageLine, TokLo>>,
      <<CallCalc, CallCalc, ResCalc, ResCalcAgain>>,
      <<CallWeb, ResCalc, ResWeb>>,
      <<Think, EmptyLine, TokLo, Err, CallWeb, TokHel>>,
      <<DoneLine, TokHel>> }

\* A slip: a payload that fails to parse ends the loop over the chunk.
DecodeStopsAtMalformed(line) ==
    IF ~line.prefix THEN [tag |-> "continue", ev |-> NoEvent]
    ELSE IF line.payload.kind # "json" THEN [tag |-> "break", ev |-> NoEvent]
    ELSE [tag |-> "event", ev |-> line.payload.ev]

\* What the loop does with a line before it looks at the event:
\* "continue" (skip the line), "break" (leave the for loop), "event".
Decode(line) ==
    IF ~line.prefix THEN [tag |-> "continue", ev |-> NoEvent]
    ELSE IF line.payload.kind = "done" THEN [tag |-> "break", ev |-> NoEvent]
    ELSE IF line.payload.kind # "json" THEN [tag |-> "continue", ev |-> NoEvent]
    ELSE [tag |-> "event", ev |-> line.payload.ev]

----------------------------------------------------------------------------
(* The event handlers of the frame loop *)

UserMsg(t, content) ==
    [id |-> 2 * t - 1, role |-> "user", content |-> Trim(content),
     isStreaming |-> FALSE, thinking |-> <<>>]

AssistantMsg(t) ==
    [id |-> 2 * t, role |-> "assistant", content |-> <<>>,
     isStreaming |-> TRUE, thinking |-> <<>>]

\* m => ({ role: m.role, content: m.content })
RoleAndContent(m) == [role |-> m.role, content |-> m.content]

\* [...messages, userMsg].map(...), over the messages the callback closed over.
AllMessages(closed, userMsg) ==
    [i \in 1..(Len(closed) + 1) |-> RoleAndContent((closed \o <<userMsg>>)[i])]

\* A slip: the reasoning text goes to the content.
OnThinkingAsContent(msgs, id, ev) ==
    [i \in DOMAIN msgs |->
        IF msgs[i].id = id
        THEN [msgs[i] EXCEPT !.content = msgs[i].content \o ev.content]
        ELSE msgs[i]]

OnThinking(msgs, id, ev) ==
    [i \in DOMAIN msgs |->
        IF msgs[i].id = id
        THEN [msgs[i] EXCEPT !.thinking = msgs[i].thinking \o ev.content]
        ELSE msgs[i]]

\* A slip: fullContent = event.content
TokenFullAssigned(full, ev) == ev.content

\* fullContent += event.content
TokenFull(full, ev) == full \o ev.content

\* A slip: the accumulated text is added to the content instead of replacing it.
OnTokenAppendsFull(msgs, id, ev, full) ==
    [i \in DOMAIN msgs |->
        IF msgs[i].id = id
        THEN [msgs[i] EXCEPT !.content = msgs[i].content \o full,
                             !.isStreaming = ~ev.done]
        ELSE msgs[i]]

OnToken(msgs, id, ev, full) ==
    [i \in DOMAIN msgs |->
        IF msgs[i].id = id
        THEN [msgs[i] EXCEPT !.content = full, !.isStreaming = ~ev.done]
        ELSE msgs[i]]

\* A slip: the argument payload is stored as it came, unparsed.
OnToolCallUnparsed(tcs, ev) ==
    Append(tcs, [name |-> ev.tool_name,
                 arguments |-> ev.content,
                 status |-> "running",
                 result |-> Undefined])

\* try { args = JSON.parse(event.content || '{}') } catch { } : the arguments
\* stay the empty object when the payload does not parse.
OnToolCall(tcs, ev) ==
    LET parsed == JsonParse(IF ev.content = <<>> THEN <<"{", "}">> ELSE ev.content)
    IN  Append(tcs, [name |-> ev.tool_name,
                     arguments |-> IF parsed.ok THEN parsed.val ELSE <<>>,
                     status |-> "running",
                     result |-> Undefined])

\* A slip: the entry's name is not compared.
OnToolResultAnyName(tcs, ev) ==
    [i \in DOMAIN tcs |->
        IF tcs[i].status = "running"
        THEN [tcs[i] EXCEPT !.result = ev.tool_result, !.status = "done"]
        ELSE tcs[i]]

\* A slip: the entry's status is not compared.
OnToolResultAnyStatus(tcs, ev) ==
    [i \in DOMAIN tcs |->
        IF tcs[i].name = ev.tool_name
        THEN [tcs[i] EXCEPT !.result = ev.tool_result, !.status = "done"]
        ELSE tcs[i]]

OnToolResult(tcs, ev) ==
    [i \in DOMAIN tcs |->
        IF tcs[i].name = ev.tool_name /\ tcs[i].status = "running"
        THEN [tcs[i] EXCEPT !.result = ev.tool_result, !.status = "done"]
        ELSE tcs[i]]

\* A slip: the annotation replaces what was accumulated.
ErrorFullReplaces(full, ev) == ErrorNote(ev.content)

\* fullContent += `\n\n Error: ${event.content}`
ErrorFull(full, ev) == full \o ErrorNote(ev.content)

OnError(msgs, id, full) ==
    [i \in DOMAIN msgs |->
        IF msgs[i].id = id
        THEN [msgs[i] EXCEPT !.content = full, !.isStreaming = FALSE]
        ELSE msgs[i]]

\* The "Finalize" update after the read loop.
Finalize(msgs, id) ==
    [i \in DOMAIN msgs |->
        IF msgs[i].id = id
        THEN [msgs[i] EXCEPT !.isStreaming = FALSE]
        ELSE msgs[i]]

\* A slip: the annotation is appended to the content.
OnConnectionErrorAppended(msgs, id, msg) ==
    [i \in DOMAIN msgs |->
        IF msgs[i].id = id
        THEN [msgs[i] EXCEPT !.content = msgs[i].content \o ConnectionNote(msg), !.isStreaming = FALSE]
        ELSE msgs[i]]

\* A slip: the note goes to the last message of the history, whatever its id.
OnConnectionErrorToLast(msgs, id, msg) ==
    [i \in DOMAIN msgs |->
        IF i = Len(msgs)
        THEN [msgs[i] EXCEPT !.content = ConnectionNote(msg), !.isStreaming = FALSE]
        ELSE msgs[i]]

\* The update of the catch block for an error that is not an AbortError.
OnConnectionError(msgs, id, msg) ==
    [i \in DOMAIN msgs |->
        IF msgs[i].id = id
        THEN [msgs[i] EXCEPT !.content = ConnectionNote(msg), !.isStreaming = FALSE]
        ELSE msgs[i]]

----------------------------------------------------------------------------
(* State *)

NoCur == [t |-> NoTurn, lines |-> <<>>]

\* A sendMessage invocation: where it is suspended (pc), and its locals.
\*   "unused"    not called yet
\*   "creating"  awaiting axios.post(.../api/memory/conversations)
\*   "fetching"  awaiting fetch(.../api/chat/stream)
\*   "reading"   awaiting reader.read()
\*   "closed"    returned
\* messages is the value of the messages state the callback closed over (it is
\* read after the await of the create request), allMessages the list sent
\* (kept while the request is awaited; it is not used after that).
\* outcome and error record how it returned: "Completed" (the read loop ended),
\* "Cancelled" (AbortError), "Failed" (any other error, with its message).
NoTurnRec ==
    [pc |-> "unused", content |-> <<>>, activeChatId |-> NoId, messages |-> <<>>,
     allMessages |-> <<>>, fullContent |-> <<>>, outcome |-> "none", error |-> <<>>]

\* What a response stream has delivered so far, read off the lines themselves:
\*   tokens    the payloads of its token frames, concatenated in arrival order
\*   text      those payloads and the annotations of its error frames, in
\*             arrival order
\*   errors    whether an error frame was among them
\*   ended     whether the end marker was among them
\*   trailing  whether a data frame arrived after the end marker
\*   malformed whether a data frame arrived whose payload is no JSON record
NoneSeen ==
    [tokens |-> <<>>, text |-> <<>>, errors |-> FALSE, ended |-> FALSE,
     trailing |-> FALSE, malformed |-> FALSE]

IsFrame(line, kind) ==
    line.prefix /\ line.payload.kind = "json" /\ line.payload.ev.event = kind

RECURSIVE Deliver(_, _)
Deliver(sn, lines) ==
    IF lines = <<>> THEN sn
    ELSE LET line == Head(lines) IN
         Deliver([tokens |-> IF IsFrame(line, "token")
                             THEN sn.tokens \o line.payload.ev.content
                             ELSE sn.tokens,
                  text |-> IF IsFrame(line, "token")
                           THEN sn.text \o line.payload.ev.content
                           ELSE IF IsFrame(line, "error")
                           THEN sn.text \o ErrorNote(line.payload.ev.content)
                           ELSE sn.text,
                  errors |-> sn.errors \/ IsFrame(line, "error"),
                  ended |-> sn.ended \/ (line.prefix /\ line.payload.kind = "done"),
                  trailing |-> sn.trailing \/ (sn.ended /\ line.prefix),
                  malformed |-> sn.malformed
                                \/ (line.prefix /\ line.payload.kind = "garbage")],
                 Tail(lines))

\* A response body whose text is known: the chunks it arrives in, and those
\* that reader.read() has yet to return.
NoWire == [chunks |-> <<>>, rest |-> <<>>]

\* A checkHealth invocation at its await, and one whose GET has settled: with
\* the model the backend reported (ok), or with a failure.
Awaited == [state |-> "awaited", ok |-> FALSE, model |-> <<>>]
Answered(ok, model) ==
    [state |-> "answered", ok |-> ok, model |-> IF ok THEN <<model>> ELSE <<>>]

Init ==
    /\ conversationId = NoId
    /\ messages = <<>>
    /\ isStreaming = FALSE
    /\ activeToolCalls = <<>>
    /\ abortRef = NoTurn
    /\ turns = [t \in Turns |-> NoTurnRec]
    /\ nTurns = 0
    /\ cur = NoCur
    /\ reads = 0
    /\ seen = [t \in Turns |-> NoneSeen]
    /\ wire = [t \in Turns |-> NoWire]
    /\ conversations = <<>>
    /\ calls = {}
    /\ connected = FALSE
    /\ currentModel = DefaultModel
    /\ location = NoId
    /\ refreshing = TRUE
    /\ checks = <<Awaited>>

\* The id the conversation store gives the conversation that invocation t
\* creates (res.data.id): a fresh one.
StoreId(t) == t

\* The guard of sendMessage: if (!content.trim() || isStreaming) return;
SendRejected(content, streaming) == Trim(content) = <<>> \/ streaming

\* The id of the assistant message of invocation t (crypto.randomUUID()).
AssistantId(t) == 2 * t

\* From the construction of userMsg up to the await of fetch: both messages are
\* appended, the flag is set, the request's message list is built from the
\* messages the callback closed over, and a new AbortController is stored in
\* abortRef.
Begin(t, content, chatId, closed) ==
    /\ messages' = messages \o <<UserMsg(t, content), AssistantMsg(t)>>
    /\ isStreaming' = TRUE
    /\ abortRef' = t
    /\ turns' = [turns EXCEPT ![t] =
                    [@ EXCEPT !.pc = "fetching", !.content = content,
                              !.activeChatId = chatId, !.messages = <<>>,
                              !.allMessages = AllMessages(closed, UserMsg(t, content))]]

\* A slip: the finally block does not clear the flag.
CloseKeepsFlag(t, how, msg) ==
    /\ UNCHANGED isStreaming
    /\ abortRef' = NoTurn
    /\ turns' = [turns EXCEPT ![t] =
                    [NoTurnRec EXCEPT !.pc = "closed", !.outcome = how, !.error = msg]]

\* The finally block, and the invocation returns (its locals are gone).
Close(t, how, msg) ==
    /\ isStreaming' = FALSE
    /\ abortRef' = NoTurn
    /\ turns' = [turns EXCEPT ![t] =
                    [NoTurnRec EXCEPT !.pc = "closed", !.outcome = how, !.error = msg]]

\* The catch block for an error that is not an AbortError, then finally.
Fail(t, msg) ==
    /\ messages' = OnConnectionError(messages, AssistantId(t), msg)
    /\ Close(t, "Failed", msg)

\* sendMessage(content), up to its first await.
SendMessage(content) ==
    /\ cur = NoCur
    /\ nTurns < MaxTurns
    /\ IF SendRejected(content, isStreaming)
       THEN UNCHANGED <<conversationId, messages, isStreaming, activeToolCalls,
                        abortRef, turns, nTurns, cur, reads, seen, wire,
                        conversations, calls>>
       ELSE LET t == nTurns + 1 IN
            /\ nTurns' = t
            /\ IF conversationId = NoId
               THEN /\ turns' = [turns EXCEPT ![t] =
                                    [@ EXCEPT !.pc = "creating", !.content = content,
                                              !.messages = messages]]
                    /\ UNCHANGED <<messages, isStreaming, abortRef>>
               ELSE Begin(t, content, conversationId, messages)
            /\ UNCHANGED <<conversationId, activeToolCalls, cur, reads, seen, wire,
                           conversations, calls>>
    /\ UNCHANGED <<checks, connected, currentModel, location, refreshing>>

\* The conversation store answers the create request of invocation t
\* (ok: the id is set, the location is pushed and fetchConversations is
\* called), or the request fails and the catch block logs it.
CreateSettled(t, ok) ==
    /\ cur = NoCur
    /\ turns[t].pc = "creating"
    /\ IF ok
       THEN /\ conversationId' = StoreId(t)
            /\ location' = StoreId(t)
            /\ refreshing' = TRUE
            /\ Begin(t, turns[t].content, StoreId(t), turns[t].messages)
       ELSE /\ UNCHANGED <<conversationId, location, refreshing>>
            /\ Begin(t, turns[t].content, NoId, turns[t].messages)
    /\ UNCHANGED <<activeToolCalls, nTurns, cur, reads, seen, wire, conversations,
                   calls>>
    /\ UNCHANGED <<checks, connected, currentModel>>

\* How the awaited fetch settles when it is not aborted.
FetchResults == {"ok", "status", "nobody", "rejected"}

\* err.message
FetchError(r) ==
    CASE r = "status" -> <<"HTTP ", "500">>
      [] r = "nobody" -> <<"No response body">>
      [] OTHER -> <<"Failed to fetch">>

ReadError == <<"network error">>

FetchSettled(t, r) ==
    /\ cur = NoCur
    /\ turns[t].pc = "fetching"
    /\ IF r = "ok"
       THEN /\ turns' = [turns EXCEPT ![t] =
                            [@ EXCEPT !.pc = "reading", !.allMessages = <<>>]]
            /\ UNCHANGED <<messages, isStreaming, abortRef>>
       ELSE Fail(t, FetchError(r))
    /\ UNCHANGED <<conversationId, activeToolCalls, nTurns, cur, reads, seen, wire,
                   conversations, calls>>
    /\ UNCHANGED <<checks, connected, currentModel, location, refreshing>>

\* reader.read() resolves with a chunk; the text is decoded and split into lines.
ReadChunk(t, chunk) ==
    /\ cur = NoCur
    /\ turns[t].pc = "reading"
    /\ reads < MaxReads
    /\ reads' = reads + 1
    /\ seen' = [seen EXCEPT ![t] = Deliver(@, chunk)]
    /\ cur' = [t |-> t, lines |-> chunk]
    /\ UNCHANGED <<conversationId, messages, isStreaming, activeToolCalls, abortRef,
                   turns, nTurns, wire, conversations, calls>>
    /\ UNCHANGED <<checks, connected, currentModel, location, refreshing>>

\* One iteration of  for (const line of lines)  .
ApplyLine ==
    /\ cur # NoCur
    /\ LET t == cur.t
           line == Head(cur.lines)
           rest == Tail(cur.lines)
           d == Decode(line)
           ev == d.ev
           full == turns[t].fullContent
           id == AssistantId(t)
       IN  /\ cur' = IF d.tag = "break" \/ rest = <<>> THEN NoCur
                     ELSE [cur EXCEPT !.lines = rest]
           /\ IF d.tag # "event"
              THEN UNCHANGED <<messages, activeToolCalls, turns>>
              ELSE CASE ev.event = "thinking" ->
                          /\ messages' = OnThinking(messages, id, ev)
                          /\ UNCHANGED <<activeToolCalls, turns>>
                     [] ev.event = "token" ->
                          /\ turns' = [turns EXCEPT ![t].fullContent = TokenFull(full, ev)]
                          /\ messages' = OnToken(messages, id, ev, TokenFull(full, ev))
                          /\ UNCHANGED activeToolCalls
                     [] ev.event = "tool_call" ->
                          /\ activeToolCalls' = OnToolCall(activeToolCalls, ev)
                          /\ UNCHANGED <<messages, turns>>
                     [] ev.event = "tool_result" ->
                          /\ activeToolCalls' = OnToolResult(activeToolCalls, ev)
                          /\ UNCHANGED <<messages, turns>>
                     [] ev.event = "error" ->
                          /\ turns' = [turns EXCEPT ![t].fullContent = ErrorFull(full, ev)]
                          /\ messages' = OnError(messages, id, ErrorFull(full, ev))
                          /\ UNCHANGED activeToolCalls
                     [] OTHER -> UNCHANGED <<messages, activeToolCalls, turns>>
    /\ UNCHANGED <<conversationId, isStreaming, abortRef, nTurns, reads, seen, wire,
                   conversations, calls>>
    /\ UNCHANGED <<checks, connected, currentModel, location, refreshing>>

\* reader.read() resolves with done: the loop ends, the message is finalized,
\* fetchConversations is called, then the finally block.
ReadDone(t) ==
    /\ cur = NoCur
    /\ turns[t].pc = "reading"
    /\ messages' = Finalize(messages, AssistantId(t))
    /\ refreshing' = TRUE
    /\ Close(t, "Completed", <<>>)
    /\ UNCHANGED <<conversationId, activeToolCalls, nTurns, cur, reads, seen, wire,
                   conversations, calls>>
    /\ UNCHANGED <<checks, connected, currentModel, location>>

\* reader.read() rejects with a transport error.
ReadFault(t) ==
    /\ cur = NoCur
    /\ turns[t].pc = "reading"
    /\ Fail(t, ReadError)
    /\ UNCHANGED <<conversationId, activeToolCalls, nTurns, cur, reads, seen, wire,
                   conversations, calls>>
    /\ UNCHANGED <<checks, connected, currentModel, location, refreshing>>

\* A slip: abort() is not called, only the flag is cleared.
StopStreamingWithoutAbort ==
    /\ cur = NoCur
    /\ isStreaming' = FALSE
    /\ UNCHANGED <<conversationId, messages, activeToolCalls, abortRef, turns, nTurns,
                   cur, reads, seen, wire, conversations, calls>>
    /\ UNCHANGED <<checks, connected, currentModel, location, refreshing>>

\* A slip: the catch block does not tell an AbortError from other errors.
StopStreamingAsFailure ==
    /\ cur = NoCur
    /\ IF abortRef # NoTurn
       THEN Fail(abortRef, <<"The user aborted a request.">>)
       ELSE /\ isStreaming' = FALSE
            /\ UNCHANGED <<messages, abortRef, turns>>
    /\ UNCHANGED <<conversationId, activeToolCalls, nTurns, cur, reads, seen, wire,
                   conversations, calls>>
    /\ UNCHANGED <<checks, connected, currentModel, location, refreshing>>

\* A slip: stopping also empties the tool-call list.
StopStreamingResetsTools ==
    /\ cur = NoCur
    /\ activeToolCalls' = <<>>
    /\ IF abortRef # NoTurn
       THEN Close(abortRef, "Cancelled", <<>>)
       ELSE /\ isStreaming' = FALSE
            /\ UNCHANGED <<abortRef, turns>>
    /\ UNCHANGED <<conversationId, messages, nTurns, cur, reads, seen, wire,
                   conversations, calls>>
    /\ UNCHANGED <<checks, connected, currentModel, location, refreshing>>

\* stopStreaming: abortRef.current?.abort(); setIsStreaming(false).
\* abort() rejects the pending fetch or read of the invocation that owns the
\* controller with an AbortError; its continuation is a microtask, so it runs
\* before any other callback: the catch block changes no message
\* (err.name === 'AbortError'), the finally block clears the flag and the ref.
StopStreaming ==
    /\ cur = NoCur
    /\ IF abortRef # NoTurn
       THEN Close(abortRef, "Cancelled", <<>>)
       ELSE /\ isStreaming' = FALSE
            /\ UNCHANGED <<abortRef, turns>>
    /\ UNCHANGED <<conversationId, messages, activeToolCalls, nTurns, cur, reads,
                   seen, wire, conversations, calls>>
    /\ UNCHANGED <<checks, connected, currentModel, location, refreshing>>

\* The state updates of clearChat.
Cleared ==
    /\ messages' = <<>>
    /\ activeToolCalls' = <<>>
    /\ conversationId' = NoId
    /\ location' = NoId

ClearChat ==
    /\ cur = NoCur
    /\ Cleared
    /\ UNCHANGED <<isStreaming, abortRef, turns, nTurns, cur, reads, seen, wire,
                   conversations, calls>>
    /\ UNCHANGED <<checks, connected, currentModel, refreshing>>

Next ==
    \/ \E content \in Texts : SendMessage(content)
    \/ \E t \in Turns, ok \in BOOLEAN : CreateSettled(t, ok)
    \/ \E t \in Turns, r \in FetchResults : FetchSettled(t, r)
    \/ \E t \in Turns, chunk \in Chunks : ReadChunk(t, chunk)
    \/ ApplyLine
    \/ \E t \in Turns : ReadDone(t)
    \/ \E t \in Turns : ReadFault(t)
    \/ StopStreaming
    \/ ClearChat

Spec == Init /\ [][Next]_vars

\* The same behaviours under the assumption that what a turn waits for comes:
\* the frame loop runs on (it is synchronous code), the awaited fetch settles,
\* and the response stream ends or faults.
FairSpec ==
    /\ Spec
    /\ WF_vars(ApplyLine)
    /\ \A t \in Turns :
          /\ WF_vars(\E r \in FetchResults : FetchSettled(t, r))
          /\ WF_vars(ReadDone(t) \/ ReadFault(t))

----------------------------------------------------------------------------
(* The text of a response body, and how it is cut into chunks and lines *)

NL == "\n"

\* The record text "{...}" of each event, named by its members.
JsonKeys == {"tokHel", "tokLo", "callCalc", "resCalc"}

JsonEvent(key) ==
    CASE key = "tokHel" -> TokHel.payload.ev
      [] key = "tokLo" -> TokLo.payload.ev
      [] key = "callCalc" -> CallCalc.payload.ev
      [] key = "resCalc" -> ResCalc.payload.ev

\* `data: ${JSON.stringify(event)}\n` and `data: [DONE]\n`
FrameText(key) == <<"data: ", "{", key, "}", NL>>
DoneText == <<"data: ", "[DONE]", NL>>

\* text.split('\n')
RECURSIVE SplitLines(_, _)
SplitLines(text, line) ==
    IF text = <<>> THEN <<line>>
    ELSE IF Head(text) = NL THEN <<line>> \o SplitLines(Tail(text), <<>>)
    ELSE SplitLines(Tail(text), Append(line, Head(text)))

Split(text) == SplitLines(text, <<>>)

\* What the loop sees of one line: line.startsWith('data: '),
\* line.slice(6).trim(), the comparison with '[DONE]', JSON.parse.
ParseLine(text) ==
    IF text = <<>> \/ Head(text) # "data: " THEN EmptyLine
    ELSE LET payload == Trim(Tail(text))
             parsed == JsonParse(payload)
         IN  IF payload = <<"[DONE]">> THEN DoneLine
             ELSE IF parsed.ok /\ Len(parsed.val) = 1 /\ parsed.val[1] \in JsonKeys
                  THEN DataLine(JsonEvent(parsed.val[1]))
                  ELSE GarbageLine

\* The lines of a chunk of text, as the loop sees them.
LinesOf(text) == [i \in DOMAIN Split(text) |-> ParseLine(Split(text)[i])]

\* The response bodies a backend sends.
Streams ==
    { FrameText("tokHel") \o FrameText("tokLo") \o DoneText,
      FrameText("tokHel") \o DoneText \o FrameText("tokLo"),
      FrameText("callCalc") \o FrameText("resCalc") \o DoneText }

\* The ways a body arrives: in one chunk, or cut into two at any place.
Cuts(text) ==
    {<<text>>}
    \cup {<<SubSeq(text, 1, k), SubSeq(text, k + 1, Len(text))>> : k \in 1..(Len(text) - 1)}

\* The fetch of invocation t resolves with a success status and a body.
StreamOpened(t, chunks) ==
    /\ cur = NoCur
    /\ turns[t].pc = "fetching"
    /\ turns' = [turns EXCEPT ![t] = [@ EXCEPT !.pc = "reading", !.allMessages = <<>>]]
    /\ wire' = [wire EXCEPT ![t] = [chunks |-> chunks, rest |-> chunks]]
    /\ UNCHANGED <<conversationId, messages, isStreaming, activeToolCalls, abortRef,
                   nTurns, cur, reads, seen, conversations, calls>>
    /\ UNCHANGED <<checks, connected, currentModel, location, refreshing>>

\* reader.read() resolves with the next chunk of the body; it is decoded and
\* split into lines.
ReadPiece(t) ==
    /\ cur = NoCur
    /\ turns[t].pc = "reading"
    /\ wire[t].rest # <<>>
    /\ wire' = [wire EXCEPT ![t].rest = Tail(@)]
    /\ reads' = reads + 1
    /\ seen' = [seen EXCEPT ![t] = Deliver(@, LinesOf(Head(wire[t].rest)))]
    /\ cur' = [t |-> t, lines |-> LinesOf(Head(wire[t].rest))]
    /\ UNCHANGED <<conversationId, messages, isStreaming, activeToolCalls, abortRef,
                   turns, nTurns, conversations, calls>>
    /\ UNCHANGED <<checks, connected, currentModel, location, refreshing>>

\* reader.read() resolves with done once the whole body has been returned.
StreamEnded(t) == wire[t].rest = <<>> /\ ReadDone(t)

SendFirst(content) == nTurns < MaxStreamTurns /\ SendMessage(content)

StreamNext ==
    \/ \E content \in Texts : SendFirst(content)
    \/ \E t \in Turns, ok \in BOOLEAN : CreateSettled(t, ok)
    \/ \E t \in Turns, r \in FetchResults \ {"ok"} : FetchSettled(t, r)
    \/ \E t \in Turns, text \in Streams : \E chunks \in Cuts(text) : StreamOpened(t, chunks)
    \/ \E t \in Turns : ReadPiece(t)
    \/ ApplyLine
    \/ \E t \in Turns : StreamEnded(t)
    \/ \E t \in Turns : ReadFault(t)
    \/ StopStreaming
    \/ ClearChat

\* The session when the response body is followed as text.
StreamSpec == Init /\ [][StreamNext]_vars

\* Bodies with tool frames, each arriving in one chunk: a call whose result
\* never comes, a result without a call, and a call with its result.
ToolStreams ==
    { <<FrameText("callCalc")>>,
      <<FrameText("resCalc") \o DoneText>>,
      <<FrameText("callCalc") \o FrameText("resCalc") \o DoneText>> }

ToolNext ==
    \/ \E content \in Texts : SendMessage(content)
    \/ \E t \in Turns, ok \in BOOLEAN : CreateSettled(t, ok)
    \/ \E t \in Turns, r \in FetchResults \ {"ok"} : FetchSettled(t, r)
    \/ \E t \in Turns, chunks \in ToolStreams : StreamOpened(t, chunks)
    \/ \E t \in Turns : ReadPiece(t)
    \/ ApplyLine
    \/ \E t \in Turns : StreamEnded(t)
    \/ \E t \in Turns : ReadFault(t)
    \/ StopStreaming
    \/ ClearChat

\* The session over several turns whose bodies carry tool frames.
ToolSpec == Init /\ [][ToolNext]_vars

----------------------------------------------------------------------------
(* The conversation store: loadHistory, deleteConversation, fetchConversations *)

\* A conversation the store holds from an earlier session.
OldId == MaxTurns + 1

ConversationIds == Turns \cup {OldId}

\* What GET /api/memory/conversations answers: the store is an external
\* service, the list is whatever it holds when it answers.
Listings == { <<>>, <<OldId>>, <<StoreId(1), OldId>> }

\* A message as the store returns it (data.messages), mapped to a ChatMessage;
\* its id is the store's.
Stored(id, role, content) ==
    [id |-> id, role |-> role, content |-> content, isStreaming |-> FALSE,
     thinking |-> <<>>]

\* What GET /api/memory/conversations/${id} answers.
Histories ==
    { <<>>,
      <<Stored(-1, "system", <<"be brief">>), Stored(-2, "user", <<"old">>),
        Stored(-3, "assistant", <<"older">>)>> }

\* history.filter(m => m.role !== 'system')
RECURSIVE NotSystem(_)
NotSystem(history) ==
    IF history = <<>> THEN <<>>
    ELSE IF Head(history).role = "system" THEN NotSystem(Tail(history))
    ELSE <<Head(history)>> \o NotSystem(Tail(history))

\* prev.filter(c => c.id !== id)
RECURSIVE Without(_, _)
Without(index, id) ==
    IF index = <<>> THEN <<>>
    ELSE IF Head(index) = id THEN Without(Tail(index), id)
    ELSE <<Head(index)>> \o Without(Tail(index), id)

\* An awaiting loadHistory(id), and an awaiting deleteConversation(id) whose
\* callback closed over the conversationId value closed.
LoadCall(id) == [op |-> "load", id |-> id, conversationId |-> NoId]
DeleteCall(id, closed) == [op |-> "delete", id |-> id, conversationId |-> closed]

InIndex(id) == \E i \in DOMAIN conversations : conversations[i] = id

\* The GET of a fetchConversations (called on mount, after a conversation is
\* created, after a turn completes) resolves and the index is replaced.
ListSettled(listing) ==
    /\ cur = NoCur
    /\ refreshing
    /\ refreshing' = FALSE
    /\ conversations' = listing
    /\ UNCHANGED <<conversationId, messages, isStreaming, activeToolCalls, abortRef,
                   turns, nTurns, cur, reads, seen, wire, calls>>
    /\ UNCHANGED <<checks, connected, currentModel, location>>

\* The GET of a fetchConversations fails: the catch block logs it.
ListFailed ==
    /\ cur = NoCur
    /\ refreshing
    /\ refreshing' = FALSE
    /\ UNCHANGED <<conversationId, messages, isStreaming, activeToolCalls, abortRef,
                   turns, nTurns, cur, reads, seen, wire, conversations, calls>>
    /\ UNCHANGED <<checks, connected, currentModel, location>>

\* loadHistory(id, true), from an entry of the sidebar, up to its await.
LoadHistory(id) ==
    /\ cur = NoCur
    /\ InIndex(id)
    /\ Cardinality(calls) < MaxCalls
    /\ calls' = calls \cup {LoadCall(id)}
    /\ UNCHANGED <<conversationId, messages, isStreaming, activeToolCalls, abortRef,
                   turns, nTurns, cur, reads, seen, wire, conversations>>
    /\ UNCHANGED <<checks, connected, currentModel, location, refreshing>>

\* A slip: the system messages are not filtered out.
LoadSettledKeepsSystem(id, ok, history) ==
    /\ cur = NoCur
    /\ LoadCall(id) \in calls
    /\ calls' = calls \ {LoadCall(id)}
    /\ IF ok
       THEN /\ messages' = history
            /\ conversationId' = id
            /\ location' = id
       ELSE UNCHANGED <<messages, conversationId, location>>
    /\ UNCHANGED <<isStreaming, activeToolCalls, abortRef, turns, nTurns, cur, reads,
                   seen, wire, conversations>>
    /\ UNCHANGED <<checks, connected, currentModel, refreshing>>

\* The state updates of loadHistory(id, updateUrl) once the store has answered.
Loaded(id, history, updateUrl) ==
    /\ messages' = NotSystem(history)
    /\ conversationId' = id
    /\ location' = IF updateUrl THEN id ELSE location

\* The GET of a loadHistory resolves with the messages of the conversation, or
\* fails and the catch block logs it.
LoadSettled(id, ok, history) ==
    /\ cur = NoCur
    /\ LoadCall(id) \in calls
    /\ calls' = calls \ {LoadCall(id)}
    /\ IF ok
       THEN Loaded(id, history, TRUE)
       ELSE UNCHANGED <<messages, conversationId, location>>
    /\ UNCHANGED <<isStreaming, activeToolCalls, abortRef, turns, nTurns, cur, reads,
                   seen, wire, conversations>>
    /\ UNCHANGED <<checks, connected, currentModel, refreshing>>

\* deleteConversation(id), from an entry of the sidebar, up to its await: the
\* user answers the confirm dialog; the callback has closed over conversationId.
DeleteConversation(id, confirmed) ==
    /\ cur = NoCur
    /\ InIndex(id)
    /\ Cardinality(calls) < MaxCalls
    /\ calls' = IF confirmed THEN calls \cup {DeleteCall(id, conversationId)} ELSE calls
    /\ UNCHANGED <<conversationId, messages, isStreaming, activeToolCalls, abortRef,
                   turns, nTurns, cur, reads, seen, wire, conversations>>
    /\ UNCHANGED <<checks, connected, currentModel, location, refreshing>>

\* A slip: the state is not cleared after the delete.
DeleteSettledKeepsChat(id, closed, ok) ==
    /\ cur = NoCur
    /\ DeleteCall(id, closed) \in calls
    /\ calls' = calls \ {DeleteCall(id, closed)}
    /\ conversations' = IF ok THEN Without(conversations, id) ELSE conversations
    /\ UNCHANGED <<messages, activeToolCalls, conversationId>>
    /\ UNCHANGED <<isStreaming, abortRef, turns, nTurns, cur, reads, seen, wire>>
    /\ UNCHANGED <<checks, connected, currentModel, location, refreshing>>

\* The DELETE of a deleteConversation(id) whose callback closed over the
\* conversationId value closed resolves, or fails and the catch block logs it.
DeleteSettled(id, closed, ok) ==
    /\ cur = NoCur
    /\ DeleteCall(id, closed) \in calls
    /\ calls' = calls \ {DeleteCall(id, closed)}
    /\ IF ok
       THEN /\ conversations' = Without(conversations, id)
            /\ IF closed = id
               THEN Cleared
               ELSE UNCHANGED <<messages, activeToolCalls, conversationId, location>>
       ELSE UNCHANGED <<conversations, messages, activeToolCalls, conversationId,
                        location>>
    /\ UNCHANGED <<isStreaming, abortRef, turns, nTurns, cur, reads, seen, wire>>
    /\ UNCHANGED <<checks, connected, currentModel, refreshing>>

SendInStore(content) == nTurns < MaxStoreTurns /\ SendMessage(content)

StoreNext ==
    \/ \E content \in Texts : SendInStore(content)
    \/ \E t \in Turns, ok \in BOOLEAN : CreateSettled(t, ok)
    \/ \E t \in Turns, r \in FetchResults : FetchSettled(t, r)
    \/ \E t \in Turns : ReadDone(t)
    \/ \E t \in Turns : ReadFault(t)
    \/ StopStreaming
    \/ ClearChat
    \/ \E listing \in Listings : ListSettled(listing)
    \/ ListFailed
    \/ \E id \in ConversationIds : LoadHistory(id)
    \/ \E id \in ConversationIds, ok \in BOOLEAN, history \in Histories :
          LoadSettled(id, ok, history)
    \/ \E id \in ConversationIds, confirmed \in BOOLEAN : DeleteConversation(id, confirmed)
    \/ \E id \in ConversationIds, closed \in ConversationIds \cup {NoId}, ok \in BOOLEAN :
          DeleteSettled(id, closed, ok)

\* The session together with the operations on the conversation store.  The
\* response bodies are empty here: what frames do is followed in Spec.
StoreSpec == Init /\ [][StoreNext]_vars

----------------------------------------------------------------------------
(* The health check and the input box *)

\* A slip: a failed check also resets the model.
HealthSettledResetsModel(ok, model) ==
    /\ cur = NoCur
    /\ connected' = ok
    /\ currentModel' = IF ok THEN model ELSE DefaultModel
    /\ UNCHANGED <<conversationId, messages, isStreaming, activeToolCalls, abortRef,
                   turns, nTurns, cur, reads, seen, wire, conversations, calls,
                   location, refreshing, checks>>

\* A slip: a failed health check also clears the turn-active flag.
HealthSettledEndsTurn(ok, model) ==
    /\ cur = NoCur
    /\ connected' = ok
    /\ currentModel' = IF ok THEN model ELSE currentModel
    /\ isStreaming' = (ok /\ isStreaming)
    /\ UNCHANGED <<conversationId, messages, activeToolCalls, abortRef,
                   turns, nTurns, cur, reads, seen, wire, conversations, calls,
                   location, refreshing, checks>>

\* The GET of a checkHealth (called on mount and every 5 s) resolves with the
\* model the backend reports (ok), or fails: a network error or a response
\* whose status is not 2xx, for which axios throws.
HealthSettled(ok, model) ==
    /\ cur = NoCur
    /\ connected' = ok
    /\ currentModel' = IF ok THEN model ELSE currentModel
    /\ UNCHANGED <<conversationId, messages, isStreaming, activeToolCalls, abortRef,
                   turns, nTurns, cur, reads, seen, wire, conversations, calls,
                   location, refreshing, checks>>

\* onModelChange={setCurrentModel}: a model is picked in the sidebar.
OnModelChange(model) ==
    /\ cur = NoCur
    /\ currentModel' = model
    /\ UNCHANGED <<conversationId, messages, isStreaming, activeToolCalls, abortRef,
                   turns, nTurns, cur, reads, seen, wire, conversations, calls,
                   connected, location, refreshing, checks>>

\* A slip: the input box does not look at disabled.
HandleSubmitUngated(input) ==
    IF Trim(input) # <<>> /\ ~isStreaming
    THEN SendMessage(input)
    ELSE UNCHANGED vars

\* ChatInput.handleSubmit with the props of page.tsx: onSend={sendMessage},
\* isStreaming={isStreaming}, disabled={!connected}.
HandleSubmit(input) ==
    IF Trim(input) # <<>> /\ ~isStreaming /\ connected
    THEN SendMessage(input)
    ELSE UNCHANGED vars

HealthNext ==
    \/ \E ok \in BOOLEAN, model \in Models : HealthSettled(ok, model)
    \/ \E model \in Models : OnModelChange(model)
    \/ \E input \in Texts : HandleSubmit(input)
    \/ \E t \in Turns, ok \in BOOLEAN : CreateSettled(t, ok)
    \/ \E t \in Turns, r \in FetchResults : FetchSettled(t, r)
    \/ \E t \in Turns : ReadDone(t)
    \/ \E t \in Turns : ReadFault(t)
    \/ StopStreaming
    \/ ClearChat

\* The session when every turn starts at the input box, together with the
\* health check that enables it.
HealthSpec == Init /\ [][HealthNext]_vars

SubmitOnce(input) == nTurns < MaxPollTurns /\ HandleSubmit(input)

PollNext ==
    \/ \E ok \in BOOLEAN, model \in Models : HealthSettled(ok, model)
    \/ \E model \in Models : OnModelChange(model)
    \/ \E input \in Texts : SubmitOnce(input)
    \/ \E t \in Turns, ok \in BOOLEAN : CreateSettled(t, ok)
    \/ \E t \in Turns, r \in FetchResults : FetchSettled(t, r)
    \/ \E t \in Turns, chunk \in Chunks : ReadChunk(t, chunk)
    \/ ApplyLine
    \/ \E t \in Turns : ReadDone(t)
    \/ \E t \in Turns : ReadFault(t)
    \/ StopStreaming
    \/ ClearChat

\* The health check beside a turn whose frames are followed.
PollSpec == Init /\ [][PollNext]_vars

\* setInterval(() => checkHealth(), 5000), and the call of the mount effect
\* (which Init holds): a checkHealth invocation reaches its await.
CheckHealth ==
    /\ cur = NoCur
    /\ Len(checks) < MaxChecks
    /\ checks' = Append(checks, Awaited)
    /\ UNCHANGED <<conversationId, messages, isStreaming, activeToolCalls, abortRef,
                   turns, nTurns, cur, reads, seen, wire, conversations, calls,
                   connected, currentModel, location, refreshing>>

\* The GET of the k-th checkHealth invocation settles, whatever became of the
\* invocations called before and after it.
HealthAnswered(k, ok, model) ==
    /\ cur = NoCur
    /\ k \in DOMAIN checks
    /\ checks[k] = Awaited
    /\ checks' = [checks EXCEPT ![k] = Answered(ok, model)]
    /\ connected' = ok
    /\ currentModel' = IF ok THEN model ELSE currentModel
    /\ UNCHANGED <<conversationId, messages, isStreaming, activeToolCalls, abortRef,
                   turns, nTurns, cur, reads, seen, wire, conversations, calls,
                   location, refreshing>>

CheckNext ==
    \/ CheckHealth
    \/ \E k \in 1..MaxChecks, ok \in BOOLEAN, model \in Models : HealthAnswered(k, ok, model)

\* The health checks followed one by one: each is called, and answered at some
\* later moment.
CheckSpec == Init /\ [][CheckNext]_vars

----------------------------------------------------------------------------
(* The page opened on a conversation *)

\* The loadHistory(chatId) of the mount effect, awaiting.
MountCall(id) == [op |-> "mount", id |-> id, conversationId |-> NoId]

\* The state after construction when the location carries ?chat=OldId: the
\* mount effect has called setConversationId(chatId) and loadHistory(chatId),
\* besides fetchConversations.
MountInit ==
    /\ conversationId = OldId
    /\ location = OldId
    /\ calls = {MountCall(OldId)}
    /\ messages = <<>>
    /\ isStreaming = FALSE
    /\ activeToolCalls = <<>>
    /\ abortRef = NoTurn
    /\ turns = [t \in Turns |-> NoTurnRec]
    /\ nTurns = 0
    /\ cur = NoCur
    /\ reads = 0
    /\ seen = [t \in Turns |-> NoneSeen]
    /\ wire = [t \in Turns |-> NoWire]
    /\ conversations = <<>>
    /\ connected = FALSE
    /\ currentModel = DefaultModel
    /\ refreshing = TRUE
    /\ checks = <<Awaited>>

\* The GET of the mount effect's loadHistory(chatId) resolves, or fails;
\* updateUrl is false.
MountLoadSettled(id, ok, history) ==
    /\ cur = NoCur
    /\ MountCall(id) \in calls
    /\ calls' = calls \ {MountCall(id)}
    /\ IF ok
       THEN Loaded(id, history, FALSE)
       ELSE UNCHANGED <<messages, conversationId, location>>
    /\ UNCHANGED <<isStreaming, activeToolCalls, abortRef, turns, nTurns, cur, reads,
                   seen, wire, conversations>>
    /\ UNCHANGED <<checks, connected, currentModel, refreshing>>

MountNext ==
    \/ StoreNext
    \/ \E id \in ConversationIds, ok \in BOOLEAN, history \in Histories :
          MountLoadSettled(id, ok, history)

\* The session and the conversation store when the page is opened on a
\* conversation.
MountSpec == MountInit /\ [][MountNext]_vars

----------------------------------------------------------------------------
(* Vocabulary of the properties *)

HasMsgIn(msgs, id) == \E i \in DOMAIN msgs : msgs[i].id = id
MsgIn(msgs, id) == msgs[CHOOSE i \in DOMAIN msgs : msgs[i].id = id]

\* The pending assistant message of turn t is (still) in the history.
HasPending(t) == HasMsgIn(messages, AssistantId(t))
Pending(t) == MsgIn(messages, AssistantId(t))

\* The streaming request of turn t is in flight.
InFlight(t) == turns[t].pc \in {"fetching", "reading"}

IsPrefix(a, b) == Len(a) <= Len(b) /\ SubSeq(b, 1, Len(a)) = a

\* The frame loop is about to work on a frame of this kind.
AtFrame(kind) == cur # NoCur /\ IsFrame(Head(cur.lines), kind)
AtMalformed ==
    cur # NoCur /\ Head(cur.lines).prefix /\ Head(cur.lines).payload.kind = "garbage"

\* The indices of the running entries named n.
Running(tcs, n) == {i \in DOMAIN tcs : tcs[i].name = n /\ tcs[i].status = "running"}

Max(S) == CHOOSE x \in S : \A y \in S : y <= x

----------------------------------------------------------------------------
(* C1 *)

----------------------------------------------------------------------------
(* C2, C3 *)

\* C2: in every reachable state at most one turn has its streaming request in
\* flight.
C2_SingleFlight == Cardinality({t \in Turns : InFlight(t)}) <= 1

\* C3: in every reachable state in which a turn's streaming request is in
\* flight, and for every blank text in any state, sendMessage takes its early
\* return, so that the call changes nothing.
C3_SendIsNoOp ==
    \A content \in Texts :
        ((\E t \in Turns : InFlight(t)) \/ Trim(content) = <<>>)
        => SendRejected(content, isStreaming)

----------------------------------------------------------------------------
(* C4, C5 *)

\* C4: a stopStreaming step taken while the turn whose controller abortRef
\* holds is reading its response stream ends that turn as Cancelled and leaves
\* its pending assistant message with the in-progress flag false.
C4_CancelClearsFlag ==
    [][StopStreaming =>
        \A t \in Turns :
            (abortRef = t /\ turns[t].pc = "reading")
            => /\ turns'[t].outcome = "Cancelled"
               /\ HasMsgIn(messages', AssistantId(t))
                  => ~MsgIn(messages', AssistantId(t)).isStreaming]_vars

\* C5: once a turn has returned (Completed, Cancelled or Failed) and the
\* session is idle (flag false, no controller held, no sendMessage invocation
\* open), no message of the history is marked in progress.
C5_NoneLeftInProgress ==
    (/\ \E t \in Turns : turns[t].pc = "closed"
     /\ \A t \in Turns : turns[t].pc \in {"unused", "closed"}
     /\ ~isStreaming
     /\ abortRef = NoTurn)
    => \A i \in DOMAIN messages : ~messages[i].isStreaming

----------------------------------------------------------------------------
(* C6, C7 *)

\* C6: the step in which a turn ends as Failed leaves its pending message with
\* the connectivity annotation built from that error's message as its whole
\* content and with the in-progress flag false; the error message is the one of
\* the cause (status, missing body, rejected fetch; transport fault of a read);
\* and the session is idle: flag false, no controller held, a non-blank
\* sendMessage passes the guard.
C6_FailedIsAnnotated ==
    [][\A t \in Turns :
        (turns[t].outcome # "Failed" /\ turns'[t].outcome = "Failed")
        => /\ turns[t].pc = "fetching"
              => turns'[t].error \in {FetchError(r) : r \in FetchResults \ {"ok"}}
           /\ turns[t].pc = "reading" => turns'[t].error = ReadError
           /\ HasMsgIn(messages', AssistantId(t))
              => /\ MsgIn(messages', AssistantId(t)).content
                        = ConnectionNote(turns'[t].error)
                 /\ ~MsgIn(messages', AssistantId(t)).isStreaming
           /\ ~isStreaming'
           /\ abortRef' = NoTurn
           /\ \E content \in Texts : ~SendRejected(content, isStreaming')]_vars

C6_Witness ==
    \E t \in Turns :
        /\ turns[t].outcome = "Failed"
        /\ turns[t].error = ReadError
        /\ seen[t].tokens # <<>>
        /\ HasPending(t)
        /\ Pending(t).content = ConnectionNote(ReadError)
        /\ ~Pending(t).isStreaming
        /\ ~isStreaming

\* C7: the step in which a transport fault ends a turn that is reading leaves
\* the content its message had before in place, with the annotation after it.
C7_PartialContentKept ==
    [][\A t \in Turns :
        (/\ turns[t].pc = "reading"
         /\ turns'[t].outcome = "Failed"
         /\ HasPending(t)
         /\ HasMsgIn(messages', AssistantId(t)))
        => /\ IsPrefix(Pending(t).content, MsgIn(messages', AssistantId(t)).content)
           /\ Len(MsgIn(messages', AssistantId(t)).content) > Len(Pending(t).content)]_vars

----------------------------------------------------------------------------
(* C8, C9, C10 *)

\* C8: a step of the frame loop on a tool_result frame for name N changes the
\* tool-call list if and only if the list holds a running entry named N; the
\* number of entries never changes.
C8_ResultAppliedIffRunning ==
    [][AtFrame("tool_result") =>
        LET n == Head(cur.lines).payload.ev.tool_name IN
        /\ (activeToolCalls' # activeToolCalls) <=> (Running(activeToolCalls, n) # {})
        /\ Len(activeToolCalls') = Len(activeToolCalls)]_vars

\* A result for "calc" found only a running entry named "web" and was dropped;
\* the result for "web" then completed that entry.
C8_Witness ==
    /\ cur = NoCur
    /\ Len(activeToolCalls) = 1
    /\ activeToolCalls[1].name = "web"
    /\ activeToolCalls[1].status = "done"
    /\ activeToolCalls[1].result = <<"page">>

\* C9: a step of the frame loop on a tool_result frame for name N sets the most
\* recent running entry named N to done and leaves every other entry as it
\* was.
C9_OnlyMostRecent ==
    [][(AtFrame("tool_result")
        /\ Running(activeToolCalls, Head(cur.lines).payload.ev.tool_name) # {}) =>
        LET n == Head(cur.lines).payload.ev.tool_name
            k == Max(Running(activeToolCalls, n))
        IN  /\ activeToolCalls'[k].status = "done"
            /\ \A i \in DOMAIN activeToolCalls \ {k} :
                  activeToolCalls'[i] = activeToolCalls[i]]_vars

\* C10: a step of the frame loop on a data frame whose payload is no JSON
\* record changes nothing of the session or of the turn, and the loop goes on
\* with the lines after it.
C10_MalformedSkipped ==
    [][AtMalformed =>
        /\ UNCHANGED <<conversationId, messages, isStreaming, activeToolCalls,
                       abortRef, turns, nTurns>>
        /\ cur' = IF Tail(cur.lines) = <<>> THEN NoCur
                  ELSE [cur EXCEPT !.lines = Tail(cur.lines)]]_vars

C10_Witness ==
    \E t \in Turns :
        /\ seen[t].malformed
        /\ turns[t].outcome = "Completed"
        /\ HasPending(t)
        /\ Pending(t).content = <<"Hel", "lo">>

----------------------------------------------------------------------------
(* C11, C12 *)

RECURSIVE Concat(_)
Concat(chunks) == IF chunks = <<>> THEN <<>> ELSE Head(chunks) \o Concat(Tail(chunks))

\* The frames of a body, read off its whole text.
Frames(t) == LinesOf(Concat(wire[t].chunks))

\* The lines before the first end marker.
RECURSIVE UpToEnd(_)
UpToEnd(lines) ==
    IF lines = <<>> \/ (Head(lines).prefix /\ Head(lines).payload.kind = "done")
    THEN <<>>
    ELSE <<Head(lines)>> \o UpToEnd(Tail(lines))

\* The turn has read its whole body, completed, and its message is in the history.
ReadToEnd(t) ==
    /\ turns[t].outcome = "Completed"
    /\ wire[t].chunks # <<>>
    /\ wire[t].rest = <<>>
    /\ HasPending(t)

\* C11: when a turn has read a body (with nothing after its end marker) to its
\* end, the content of its message is the concatenation of the token payloads
\* of the frames of the body, however the body was cut into chunks.
C11_CutsDoNotMatter ==
    \A t \in Turns :
        (ReadToEnd(t) /\ ~Deliver(NoneSeen, Frames(t)).trailing)
        => Pending(t).content = Deliver(NoneSeen, Frames(t)).tokens

\* C12: when a turn has read a body to its end, each chunk of which ends at the
\* end of a frame, the content of its message is the concatenation of the token
\* payloads of the frames before the end marker: the frames after it, in the
\* same chunk or a later one, have added nothing.
C12_NothingAfterEndMarker ==
    \A t \in Turns :
        (/\ ReadToEnd(t)
         /\ \A i \in DOMAIN wire[t].chunks :
               wire[t].chunks[i][Len(wire[t].chunks[i])] = NL)
        => Pending(t).content = Deliver(NoneSeen, UpToEnd(Frames(t))).tokens

----------------------------------------------------------------------------
(* C13, C15 *)

\* C13: a stopStreaming step aborts the turn whose controller abortRef holds:
\* that sendMessage invocation returns in the same step, with the frame loop
\* idle; and a sendMessage invocation that has returned stays returned and the
\* frame loop never again works on a chunk of it, so that none of its events
\* is applied to the messages or to the tool-call list.
C13_NothingAfterCancel ==
    [][/\ (StopStreaming /\ abortRef # NoTurn)
           => (turns'[abortRef].pc = "closed" /\ cur' = NoCur)
       /\ \A t \in Turns :
             turns[t].pc = "closed" => (turns'[t].pc = "closed" /\ cur'.t # t)]_vars

\* A turn was cancelled after its stream had delivered an error frame, which
\* was applied before the cancel.
C13_Witness ==
    \E t \in Turns :
        /\ turns[t].outcome = "Cancelled"
        /\ seen[t].errors
        /\ HasPending(t)
        /\ Pending(t).content = <<"lo">> \o ErrorNote(<<"boom">>) \o <<"Hel">>

\* C15: a stopStreaming step leaves the content of the pending message of the
\* turn it cancels exactly as it was: nothing added, nothing removed.
C15_CancelKeepsContent ==
    [][StopStreaming =>
        \A t \in Turns :
            (abortRef = t /\ HasPending(t))
            => /\ HasMsgIn(messages', AssistantId(t))
               /\ MsgIn(messages', AssistantId(t)).content = Pending(t).content]_vars

C15_Witness ==
    \E t \in Turns :
        /\ turns[t].outcome = "Cancelled"
        /\ HasPending(t)
        /\ Pending(t).content = <<"Hel", "lo">>

----------------------------------------------------------------------------
(* C14 *)

\* The session is idle: the flag is false and abortRef holds no controller.
Idle == ~isStreaming /\ abortRef = NoTurn

\* C14: the step in which a turn ends (Completed, Cancelled or Failed) leaves
\* the session idle; and, when fetches settle and streams end or fault, every
\* turn whose request is in flight ends, leaving the session idle.
C14_TurnsReturnToIdle ==
    /\ [][\A t \in Turns :
            (turns[t].outcome = "none" /\ turns'[t].outcome # "none")
            => (~isStreaming' /\ abortRef' = NoTurn)]_vars
    /\ \A t \in Turns : InFlight(t) ~> (turns[t].pc = "closed" /\ Idle)

\* One turn has failed, another has completed, and the session is idle.
C14_Witness ==
    /\ Idle
    /\ \E t \in Turns : turns[t].outcome = "Failed"
    /\ \E t \in Turns : turns[t].outcome = "Completed" /\ seen[t].tokens # <<>>

----------------------------------------------------------------------------
(* C16 *)

\* C16: whenever the streaming request of a turn is in flight, the conversation
\* id it was sent with is an id of the store, not null.
C16_ConversationIdExists ==
    \A t \in Turns : InFlight(t) => turns[t].activeChatId # NoId

----------------------------------------------------------------------------
(* C17 *)

\* No other sendMessage invocation is open.
Alone(t) == \A u \in Turns \ {t} : turns[u].pc \in {"unused", "closed"}

\* C17: in the step in which a turn appends its user message and sends its
\* request, the request's message list is the role and content of every
\* message of the history as it is before the append, in order, followed by
\* the role and content of the new user message.  (Stated for a turn that does
\* not overlap with another.)
C17_RequestIsHistory ==
    [][\A t \in Turns :
        (turns[t].pc # "fetching" /\ turns'[t].pc = "fetching" /\ Alone(t))
        => turns'[t].allMessages
              = [i \in DOMAIN messages |-> RoleAndContent(messages[i])]
                \o <<[role |-> "user", content |-> Trim(turns'[t].content)]>>]_vars

----------------------------------------------------------------------------
(* C18 *)

----------------------------------------------------------------------------
(* C19, C20 *)

Names(tcs) == [i \in DOMAIN tcs |-> tcs[i].name]

\* C19: in every step, an entry of the tool-call list that is done or error
\* is the same entry afterwards, a running entry is running or done
\* afterwards, and an entry that is added is running.
C19_StatusMovesForward ==
    [][/\ \A i \in DOMAIN activeToolCalls \cap DOMAIN activeToolCalls' :
             /\ activeToolCalls[i].status \in {"done", "error"}
                => activeToolCalls'[i] = activeToolCalls[i]
             /\ activeToolCalls[i].status = "running"
                => activeToolCalls'[i].status \in {"running", "done", "error"}
       /\ \A i \in DOMAIN activeToolCalls' \ DOMAIN activeToolCalls :
             activeToolCalls'[i].status \in {"pending", "running"}]_vars

\* The frame loop is about to apply a result for a name whose entry is done.
C19_Witness ==
    /\ AtFrame("tool_result")
    /\ \E i \in DOMAIN activeToolCalls :
          /\ activeToolCalls[i].name = Head(cur.lines).payload.ev.tool_name
          /\ activeToolCalls[i].status = "done"
          /\ activeToolCalls[i].result # Head(cur.lines).payload.ev.tool_result

\* C20: in every step the names of the entries of the tool-call list before
\* the step are, in the same order, a prefix of the names after it.
C20_TrackerAppendOnly ==
    [][IsPrefix(Names(activeToolCalls), Names(activeToolCalls'))]_vars

----------------------------------------------------------------------------
(* C21 *)

\* C21: in every reachable state the tool-call list holds, for any tool name,
\* at most one entry with status running.
C21_OneRunningPerName ==
    \A i \in DOMAIN activeToolCalls :
        Cardinality(Running(activeToolCalls, activeToolCalls[i].name)) <= 1

----------------------------------------------------------------------------
(* C22 *)

\* C22: a step of the frame loop on a tool_call frame appends exactly one
\* entry to the tool-call list: it has the frame's tool name, status running,
\* no result, and as arguments the parsed argument payload, or the empty
\* mapping when the payload does not parse; and a step in which a turn's
\* stream ends (the turn returns) leaves every entry as it was, so an entry
\* whose result never came is still running with no result.
C22_CallAppendsRunning ==
    [][/\ AtFrame("tool_call") =>
            LET ev == Head(cur.lines).payload.ev
                parsed == JsonParse(ev.content)
                n == Len(activeToolCalls)
            IN  /\ Len(activeToolCalls') = n + 1
                /\ SubSeq(activeToolCalls', 1, n) = activeToolCalls
                /\ activeToolCalls'[n + 1].name = ev.tool_name
                /\ activeToolCalls'[n + 1].status = "running"
                /\ activeToolCalls'[n + 1].result = Undefined
                /\ parsed.ok => activeToolCalls'[n + 1].arguments = parsed.val
                /\ ~parsed.ok => activeToolCalls'[n + 1].arguments = <<>>
       /\ (\E t \in Turns : turns[t].pc = "reading" /\ turns'[t].pc = "closed")
            => activeToolCalls' = activeToolCalls]_vars

\* A stream called "web" with an argument payload that does not parse and
\* ended without a result for it: the entry is running, with empty arguments
\* and no result.
C22_Witness ==
    /\ \E t \in Turns : turns[t].pc = "closed" /\ turns[t].outcome = "Completed"
    /\ Len(activeToolCalls) = 1
    /\ activeToolCalls[1] = [name |-> "web", arguments |-> <<>>,
                             status |-> "running", result |-> Undefined]

----------------------------------------------------------------------------
(* C23 *)

\* C23: a step of the frame loop on a tool_result frame stores, on every
\* running entry it completes, the text carried in the frame's content field.
C23_ResultIsContent ==
    [][AtFrame("tool_result") =>
        LET ev == Head(cur.lines).payload.ev IN
        \A i \in Running(activeToolCalls, ev.tool_name) :
            activeToolCalls'[i].result = ev.content]_vars

----------------------------------------------------------------------------
(* C29 *)

\* C29: a stopStreaming step taken while the session is idle (the turn-active
\* flag is false and no cancellation handle is held) changes nothing: the
\* message history, the flag, the tool-call list, the active conversation id
\* and the handle are as before, and no turn is ended by it.
C29_CancelWhenIdle ==
    [][(Idle /\ StopStreaming) =>
        UNCHANGED <<messages, isStreaming, activeToolCalls, conversationId,
                    abortRef, turns>>]_vars

\* An idle session that has something to lose: a finished turn, its history,
\* its conversation and a tool-call entry.
C29_Witness ==
    /\ Idle
    /\ cur = NoCur
    /\ \E t \in Turns : turns[t].pc = "closed"
    /\ messages # <<>>
    /\ activeToolCalls # <<>>
    /\ conversationId # NoId

----------------------------------------------------------------------------
(* C30 *)

\* C30: in every reachable state, for a turn whose streaming request is in
\* flight (awaiting the response or reading it, not cancelled), the
\* turn-active flag is true and the cancellation handle is that turn's.
C30_InFlightIsCancellable ==
    \A t \in Turns : InFlight(t) => (isStreaming /\ abortRef = t)

----------------------------------------------------------------------------
(* C26 *)

\* C26: the step in which the store answers a loadHistory(id) with the
\* messages of the conversation leaves as history exactly those messages, in
\* the store's order, without the ones of role system, and id as the active
\* conversation; the step in which the fetch fails leaves the history and the
\* active conversation as they were.
C26_SelectLoadsHistory ==
    [][\A id \in ConversationIds, history \in Histories :
        /\ LoadSettled(id, TRUE, history) =>
              /\ messages' = SelectSeq(history, LAMBDA m : m.role # "system")
              /\ conversationId' = id
        /\ LoadSettled(id, FALSE, history) =>
              UNCHANGED <<messages, conversationId>>]_vars

\* A conversation selected after a turn in another one: its stored user and
\* assistant messages are the history, its system message is not.
C26_Witness ==
    /\ conversationId = OldId
    /\ Len(messages) = 2
    /\ messages[1] = Stored(-2, "user", <<"old">>)
    /\ messages[2] = Stored(-3, "assistant", <<"older">>)
    /\ \E t \in Turns : turns[t].pc = "closed"

----------------------------------------------------------------------------
(* C25 *)

\* C25: after a step in which a turn returns (Completed, Cancelled or
\* Failed) a fetchConversations invocation is awaiting the store; and the
\* step in which a fetchConversations fails leaves the index and the rest of
\* the session as they were.
C25_TerminalRefreshes ==
    [][/\ \A t \in Turns :
             (turns[t].pc # "closed" /\ turns'[t].pc = "closed") => refreshing'
       /\ ListFailed =>
             UNCHANGED <<conversations, conversationId, messages, isStreaming,
                         activeToolCalls, abortRef, turns, connected, currentModel,
                         location>>]_vars

----------------------------------------------------------------------------
(* C24 *)

\* C24: the step in which a health check succeeds leaves connected true and
\* the current model the one the backend reported; the step in which a health
\* check fails leaves connected false and the current model as it was.
C24_HealthCheck ==
    [][\A model \in Models :
        /\ HealthSettled(TRUE, model) => (connected' /\ currentModel' = model)
        /\ HealthSettled(FALSE, model) =>
              (~connected' /\ currentModel' = currentModel)]_vars

\* A check failed after the backend had reported a model other than the
\* initial one: the session is disconnected and still shows that model.
C24_Witness ==
    /\ ~connected
    /\ currentModel # DefaultModel
    /\ \E t \in Turns : InFlight(t)

----------------------------------------------------------------------------
(* C28 *)

\* C28: a handleSubmit step taken while connected is false starts no turn:
\* the message history, the invocations of sendMessage and their requests,
\* the turn-active flag and the cancellation handle are as before.
C28_NoTurnWhenDisconnected ==
    [][\A input \in Texts :
        (~connected /\ HandleSubmit(input)) =>
            UNCHANGED <<messages, turns, nTurns, isStreaming, abortRef,
                        conversationId, refreshing>>]_vars

\* The session lost its connection after a turn: it is idle, a text could be
\* submitted and a further turn could start, but connected is false.
C28_Witness ==
    /\ ~connected
    /\ Idle
    /\ cur = NoCur
    /\ 0 < nTurns /\ nTurns < MaxTurns
    /\ \A t \in Turns : turns[t].pc \in {"unused", "closed"}

----------------------------------------------------------------------------
(* C27 *)

\* C27: in every reachable state in which no operation on the conversation
\* store is awaiting (no creation, no load, no delete), the chat parameter of
\* the location is the active conversation id, and there is none when no
\* conversation is active.
C27_LocationIsActiveId ==
    (calls = {} /\ \A t \in Turns : turns[t].pc # "creating")
        => location = conversationId

----------------------------------------------------------------------------
(* C31 *)

\* What the lines still to be worked on of the current chunk will add for
\* turn t.
Ahead(t) == Deliver(NoneSeen, IF cur.t = t THEN cur.lines ELSE <<>>)

\* C31 as stated: at every point of a turn in flight (nothing arrived after
\* its end marker), the content of its pending message is the concatenation,
\* in arrival order, of the payloads of the token frames applied so far.
C31_ContentIsTokens ==
    \A t \in Turns :
        (InFlight(t) /\ HasPending(t) /\ ~seen[t].trailing)
        => Pending(t).content \o Ahead(t).tokens = seen[t].tokens

\* C31, amended: at every point of a turn in flight (nothing arrived after
\* its end marker), the content of its pending message is the concatenation,
\* in arrival order, of the payloads of the token frames and of the
\* annotations of the error frames applied so far, each once.
C31_ContentIsTokensAndNotes ==
    \A t \in Turns :
        (InFlight(t) /\ HasPending(t) /\ ~seen[t].trailing)
        => Pending(t).content \o Ahead(t).text = seen[t].text

\* In the middle of a chunk: a thinking frame, a token and an error frame have
\* been applied, a tool call and a token are still to come.
C31_Witness ==
    \E t \in Turns :
        /\ InFlight(t) /\ HasPending(t)
        /\ cur.t = t
        /\ Head(cur.lines) = CallWeb
        /\ Pending(t).thinking # <<>>
        /\ Pending(t).content = <<"lo">> \o ErrorNote(<<"boom">>)
        /\ seen[t].text = <<"lo">> \o ErrorNote(<<"boom">>) \o <<"Hel">>

----------------------------------------------------------------------------
(* C32 *)

\* C32: a step of the frame loop on an error frame leaves the pending message
\* with the content it had followed by the error annotation and with the
\* in-progress flag false; the turn is still reading (it has not returned, the
\* turn-active flag and the cancellation handle are as before) and the loop
\* goes on with the next line; and when the stream of a turn that carried an
\* error frame ends, the turn returns as Completed.
C32_ErrorIsANotice ==
    [][/\ AtFrame("error") =>
            LET t == cur.t
                ev == Head(cur.lines).payload.ev
            IN  /\ HasPending(t) =>
                      /\ HasMsgIn(messages', AssistantId(t))
                      /\ MsgIn(messages', AssistantId(t)).content
                            = Pending(t).content \o ErrorNote(ev.content)
                      /\ ~MsgIn(messages', AssistantId(t)).isStreaming
                /\ turns'[t].pc = "reading"
                /\ turns'[t].outcome = "none"
                /\ UNCHANGED <<isStreaming, abortRef>>
                /\ cur' = IF Tail(cur.lines) = <<>> THEN NoCur
                          ELSE [cur EXCEPT !.lines = Tail(cur.lines)]
       /\ \A t \in Turns :
             (seen[t].errors /\ ReadDone(t)) => turns'[t].outcome = "Completed"]_vars

\* A stream with a token, an error frame and a further token has ended: the
\* turn is Completed and the message holds all three in order.
C32_Witness ==
    \E t \in Turns :
        /\ turns[t].outcome = "Completed"
        /\ seen[t].errors
        /\ HasPending(t)
        /\ Pending(t).content = <<"lo">> \o ErrorNote(<<"boom">>) \o <<"Hel">>
        /\ ~Pending(t).isStreaming

----------------------------------------------------------------------------
(* C33, C34 *)

\* C33: in every step, a message of the history whose in-progress flag is
\* false and that is still in the history afterwards has the same content
\* afterwards.
C33_ContentFrozenWhenDone ==
    [][\A i \in DOMAIN messages :
        (~messages[i].isStreaming /\ HasMsgIn(messages', messages[i].id))
        => MsgIn(messages', messages[i].id).content = messages[i].content]_vars

\* C34: in every step of a turn that is reading, a pending message whose
\* in-progress flag is false keeps it false.
C34_FlagStaysFalse ==
    [][\A t \in Turns :
        (/\ turns[t].pc = "reading"
         /\ HasPending(t)
         /\ ~Pending(t).isStreaming
         /\ HasMsgIn(messages', AssistantId(t)))
        => ~MsgIn(messages', AssistantId(t)).isStreaming]_vars

----------------------------------------------------------------------------
(* C35 *)

\* C35: a step of the frame loop on a thinking frame changes, of the history,
\* only the reasoning text of the turn's pending message, which gets the
\* payload appended, and leaves the tool-call list as it was; a step on a
\* tool_call or tool_result frame leaves the whole history as it was.  Neither
\* changes the turn's accumulated text.
C35_ThinkingAndToolsKeepContent ==
    [][/\ AtFrame("thinking") =>
            LET id == AssistantId(cur.t)
                ev == Head(cur.lines).payload.ev
            IN  /\ DOMAIN messages' = DOMAIN messages
                /\ \A i \in DOMAIN messages :
                      messages'[i] =
                          IF messages[i].id = id
                          THEN [messages[i] EXCEPT
                                   !.thinking = messages[i].thinking \o ev.content]
                          ELSE messages[i]
                /\ UNCHANGED <<activeToolCalls, turns>>
       /\ (AtFrame("tool_call") \/ AtFrame("tool_result")) =>
            UNCHANGED <<messages, turns>>]_vars

\* A thinking frame, a token, an error frame and a tool call have been
\* applied: the message has its reasoning text, its content is the token and
\* the annotation, its flag is as the error frame left it.
C35_Witness ==
    \E t \in Turns :
        /\ cur.t = t
        /\ cur.lines = <<TokHel>>
        /\ HasPending(t)
        /\ Pending(t).thinking = <<"hmm">>
        /\ Pending(t).content = <<"lo">> \o ErrorNote(<<"boom">>)
        /\ ~Pending(t).isStreaming
        /\ Len(activeToolCalls) = 1

----------------------------------------------------------------------------
(* C36 *)

\* C36: a step of the frame loop on a tool_result frame of a turn whose own
\* body carries no tool_call frame (no entry of the list is of that turn's
\* making) leaves the tool-call list as it was.
C36_ResultsOfOwnCalls ==
    [][(/\ AtFrame("tool_result")
        /\ \A i \in DOMAIN Frames(cur.t) : ~IsFrame(Frames(cur.t)[i], "tool_call"))
       => activeToolCalls' = activeToolCalls]_vars

----------------------------------------------------------------------------
(* C37 *)

\* A step of turn t after its start: an iteration of its frame loop, or the
\* step in which it ends.
StepOf(t) ==
    \/ cur # NoCur /\ cur.t = t
    \/ InFlight(t) /\ turns'[t].pc = "closed"

\* C37: a frame of a turn and the end of a turn change no message but the
\* assistant message the turn created: the history keeps its length, and every
\* message with another id is as it was; when the turn's message is no longer
\* in the history, the history is as it was.
C37_OnlyOwnMessage ==
    [][\A t \in Turns :
         StepOf(t) =>
            /\ Len(messages') = Len(messages)
            /\ \A i \in DOMAIN messages :
                 messages[i].id # AssistantId(t) => messages'[i] = messages[i]
            /\ ~HasPending(t) => messages' = messages]_vars

\* A turn has failed after the chat was cleared, and the untouched message of
\* a later turn is in the history.
C37_Witness ==
    \E t \in Turns, u \in Turns :
        /\ turns[t].outcome = "Failed"
        /\ ~HasPending(t)
        /\ InFlight(u)
        /\ HasPending(u)
        /\ Pending(u).content = <<>>
        /\ Pending(u).isStreaming

----------------------------------------------------------------------------
(* C39 *)

\* C39: when the DELETE of deleteConversation(id) settles and id is not the
\* active conversation at that moment, the message history and the active
\* conversation id are as they were.
C39_DeleteOfInactiveKeepsChat ==
    [][\A id \in ConversationIds, closed \in ConversationIds \cup {NoId}, ok \in BOOLEAN :
         (DeleteSettled(id, closed, ok) /\ conversationId # id)
            => UNCHANGED <<messages, conversationId>>]_vars

----------------------------------------------------------------------------
(* C38 *)

\* C38: the result of a health check leaves the message history, the
\* turn-active flag, the cancellation handle, the tool-call list and the active
\* conversation id as they were, in whatever state the turn is; and a step
\* of a turn (its start, a chunk read, a frame, its end) leaves the connected
\* flag and the current model as they were.
C38_HealthApartFromTurns ==
    [][/\ (\E ok \in BOOLEAN, model \in Models : HealthSettled(ok, model))
            => UNCHANGED <<messages, isStreaming, abortRef, activeToolCalls,
                           conversationId, turns>>
       /\ (turns' # turns \/ cur' # cur)
            => UNCHANGED <<connected, currentModel>>]_vars

\* A health check has failed while a turn that has shown text is reading, and
\* the turn goes on.
C38_Witness ==
    \E t \in Turns :
        /\ ~connected
        /\ turns[t].pc = "reading"
        /\ isStreaming
        /\ abortRef = t
        /\ HasPending(t)
        /\ Pending(t).content # <<>>

----------------------------------------------------------------------------
(* C40 *)

\* Every checkHealth invocation called so far has been answered.
AllAnswered == \A k \in DOMAIN checks : checks[k] # Awaited

\* C40: once every health check that was called has been answered, the
\* connected flag is the outcome of the check that was called last, and when
\* that check succeeded the current model is the model it reported.
C40_LastCalledCheckWins ==
    AllAnswered =>
        LET last == checks[Len(checks)]
        IN  /\ connected = last.ok
            /\ last.ok => <<currentModel>> = last.model

============================================================================
